---------------------------- MODULE Spec2Model ----------------------------
(***************************************************************************)
(* A model of the paged storage engine of package pages: the tiered page   *)
(* tree (tieredpage.go, pageTable), the recycler and the Entry cursor      *)
(* operations (entry.go).                                                  *)
(*                                                                         *)
(* A physical page is identified by its page number pid; its fileOff is    *)
(* pid * pageSize.  A pageTable is identified by the page number of the    *)
(* physical page it is stored on (pt.pp).  The three tiered pages are the  *)
(* entry pages "A" and "B" and the recycling page "R" (pm.freePages).      *)
(***************************************************************************)
EXTENDS Integers, Sequences, FiniteSets, TLC

VARIABLES
    tp,            \* tiered page name -> [root, usedSize, pages, pp]
    pagesToFree,   \* recyclingPage.pagesToFree
    tables,        \* pageTable objects: pid of pt.pp -> [height, parent, childTables, childPages]
    ppUsed,        \* physicalPage.usedSize of every page object, by pid
    fileData,      \* bytes of the backing file, by pid (data pages)
    diskTable,     \* last serialized form written for a page table page, by pid
    descr,         \* descriptor page of a tiered page: height -> encoded (usedBytes, pageOff)
    fileSize,      \* number of pages of the backing file
    recyclePages,  \* PageManager.recyclePages
    panicMsg,      \* "none", or the panic (or hang) that ended the process
    cursor,        \* Entry handle -> [cursorPage, cursorOff]
    last,          \* the last operation and what it returned
    opCount,       \* number of operations issued
    th,            \* concurrent specification: thread -> local state of its running operation
    epLock,        \* concurrent specification: entry name -> [readers, writer] of ep.mu
    pmLock,        \* concurrent specification: holder of pm.mu, or "free"
    instanceCounter, \* entry -> entryPage.instanceCounter
    entryPages     \* the keys of pm.entryPages

vars == <<tp, pagesToFree, tables, ppUsed, fileData, diskTable, descr, fileSize,
          recyclePages, panicMsg, cursor, last, opCount, th, epLock, pmLock,
          instanceCounter, entryPages>>

---------------------------------------------------------------------------
(* Program constants (scaled down) and bounds of the model                 *)

pageSize == 2

numPageEntries == 3

\* width of the model's unsigned integers: uint64 arithmetic is taken modulo UintMod
UintMod == 256

MaxLen == 7

MaxReadLen == 3

MaxOff == 3

MaxOps == 3

MaxFail == 2

MaxHeight == 3

NoPage == 0 - 1

Entries == {"A", "B"}

EntryOf(h) == IF h = "e1" THEN "A" ELSE "B"

---------------------------------------------------------------------------
(* Helpers                                                                 *)

Min(a, b) == IF a < b THEN a ELSE b

Max(a, b) == IF a > b THEN a ELSE b

Uint(x) == x % UintMod

EmptyMap == [x \in {} |-> 0]

MapLen(m) == Cardinality(DOMAIN m)

MapPut(m, k, v) == [x \in (DOMAIN m) \cup {k} |-> IF x = k THEN v ELSE m[x]]

MapDelete(m, k) == [x \in (DOMAIN m) \ {k} |-> m[x]]

Front(s) == SubSeq(s, 1, Len(s) - 1)

LastOf(s) == s[Len(s)]

SeqToSet(s) == {s[i] : i \in 1..Len(s)}

RECURSIVE Pow(_, _)
Pow(b, e) == IF e <= 0 THEN 1 ELSE b * Pow(b, e - 1)

fileOff(pid) == pid * pageSize

\* binary.PutVarint / binary.Varint: the zig-zag encoding of a signed integer
PutVarint(x) == IF x >= 0 THEN 2 * x ELSE (0 - 2 * x) - 1

Varint(u) == IF u % 2 = 0 THEN u \div 2 ELSE 0 - ((u + 1) \div 2)

Panic(w, msg) == IF w.panic = "none" THEN [w EXCEPT !.panic = msg] ELSE w

Ok(w) == w.panic = "none"

\* the program state as one record, as the operators below transform it.
\* failIn: the allocatePage call (counted from 1) of the running operation that
\* fails, 0 for none.  stale: the page a freePage call of the running operation
\* has already read from pagesToFree (line 273) before other threads ran.
\* calls: what the freePage calls of the running operation found and returned.
World ==
    [tp |-> tp, pagesToFree |-> pagesToFree, tables |-> tables, ppUsed |-> ppUsed,
     fileData |-> fileData, diskTable |-> diskTable, descr |-> descr,
     fileSize |-> fileSize, recyclePages |-> recyclePages, failIn |-> 0,
     stale |-> NoPage, panic |-> panicMsg, calls |-> <<>>]

SetWorld(w) ==
    /\ tp' = w.tp
    /\ pagesToFree' = w.pagesToFree
    /\ tables' = w.tables
    /\ ppUsed' = w.ppUsed
    /\ fileData' = w.fileData
    /\ diskTable' = w.diskTable
    /\ descr' = w.descr
    /\ fileSize' = w.fileSize
    /\ recyclePages' = w.recyclePages
    /\ panicMsg' = w.panic

SetNode(w, id, node) == [w EXCEPT !.tables = MapPut(w.tables, id, node)]

DelNode(w, id) == [w EXCEPT !.tables = [x \in (DOMAIN w.tables) \ {id} |-> w.tables[x]]]

SetUsed(w, pid, n) == [w EXCEPT !.ppUsed = MapPut(w.ppUsed, pid, n)]

---------------------------------------------------------------------------
(* physicalPage                                                            *)

\* physicalPage.readAt(buf, off): the number of bytes delivered
pageReadLen(w, pid, bufLen, off) == Min(bufLen, Max(0, w.ppUsed[pid] - off))

pageReadData(w, pid, n, off) == [i \in 1..n |-> w.fileData[pid][off + i]]

\* physicalPage.writeAt(buf, off): writes at most pageSize - off bytes and
\* raises usedSize to off + written
pageWriteLen(bufLen, off) == Min(bufLen, Max(0, pageSize - off))

pageWriteAt(w, pid, buf, off) ==
    LET n == pageWriteLen(Len(buf), off)
        d == [i \in 1..pageSize |->
                 IF i > off /\ i <= off + n THEN buf[i - off] ELSE w.fileData[pid][i]]
    IN  [w EXCEPT !.fileData = MapPut(w.fileData, pid, d),
                  !.ppUsed = MapPut(w.ppUsed, pid, Max(w.ppUsed[pid], off + n))]

---------------------------------------------------------------------------
(* pageTable serialization                                                 *)

Children(node) == IF node.height = 0 THEN node.childPages ELSE node.childTables

\* pageTable.marshal: numEntries = len(children); entry i is children[i].fileOff.
\* A missing key below numEntries is a nil pointer dereference.
marshalOk(node) == \A i \in 0..(MapLen(Children(node)) - 1) : i \in DOMAIN Children(node)

marshal(node) ==
    [numEntries |-> MapLen(Children(node)),
     slots |-> [i \in 1..MapLen(Children(node)) |-> PutVarint(fileOff(Children(node)[i - 1]))]]

\* pageTable.writeToDisk
writeToDisk(w, ptId) ==
    IF ~Ok(w) THEN w
    ELSE IF ~marshalOk(w.tables[ptId])
    THEN Panic(w, "marshal: nil pointer dereference")
    ELSE [w EXCEPT !.diskTable = MapPut(w.diskTable, ptId, marshal(w.tables[ptId]))]

\* unmarshalPageTable: the ordered list of child offsets
unmarshalPageTable(data) == [i \in 1..data.numEntries |-> Varint(data.slots[i])]

readPageTable(w, pid) == unmarshalPageTable(w.diskTable[pid])

\* writeTieredPageEntry(pp, index, usedBytes, pageOff)
writeTieredPageEntry(w, name, index, usedBytes, pageOff) ==
    IF ~Ok(w) THEN w
    ELSE [w EXCEPT !.descr[name] =
             MapPut(@, index, [usedBytes |-> PutVarint(usedBytes),
                               pageOff |-> PutVarint(pageOff)])]

\* readEntryPageEntry(pp, index)
readEntryPageEntry(w, name, index) ==
    [usedBytes |-> Varint(w.descr[name][index].usedBytes),
     pageOff |-> Varint(w.descr[name][index].pageOff)]

maxPages(height) == Pow(numPageEntries, height + 1)

nextIndex(w, name) == w.tp[name].usedSize \div pageSize

---------------------------------------------------------------------------
(* tieredPage.recursiveTruncate                                            *)

RECURSIVE recursiveTruncate(_, _, _, _), truncTables(_, _, _, _, _, _), truncPages(_, _, _, _, _, _)

\* the loop over pt.childTables, at loop index i (an unsigned integer)
truncTables(w, name, pt, i, size, free) ==
    IF w.tp[name].usedSize <= size
    THEN [w |-> w, empty |-> FALSE, free |-> free]
    ELSE IF i \notin DOMAIN w.tables[pt].childTables
    THEN [w |-> Panic(w, "recursiveTruncate: nil pointer dereference"),
          empty |-> FALSE, free |-> free]
    ELSE LET child == w.tables[pt].childTables[i]
             removed(w3, free3) ==
                 IF ~Ok(w3) THEN [w |-> w3, empty |-> FALSE, free |-> free3]
                 ELSE IF MapLen(w3.tables[pt].childTables) = 0
                 THEN [w |-> w3, empty |-> TRUE, free |-> free3]
                 ELSE truncTables(w3, name, pt, Uint(i - 1), size, free3)
             truncated(r) ==
                 IF ~Ok(r.w) THEN [w |-> r.w, empty |-> FALSE, free |-> free \o r.free]
                 ELSE IF r.empty
                 THEN removed(writeToDisk(
                                  DelNode([r.w EXCEPT !.tables[pt].childTables =
                                                          MapDelete(@, i)], child), pt),
                              Append(free \o r.free, child))
                 ELSE truncTables(r.w, name, pt, Uint(i - 1), size, free \o r.free)
         IN  truncated(recursiveTruncate(w, name, child, size))

\* the loop over pt.childPages, at loop index i (an unsigned integer)
truncPages(w, name, pt, i, size, free) ==
    IF w.tp[name].usedSize <= size
    THEN [w |-> w, empty |-> FALSE, free |-> free]
    ELSE IF i \notin DOMAIN w.tables[pt].childPages
    THEN [w |-> Panic(w, "recursiveTruncate: nil pointer dereference"),
          empty |-> FALSE, free |-> free]
    ELSE LET page == w.tables[pt].childPages[i]
             remainingTruncation == w.tp[name].usedSize - size
         IN  IF remainingTruncation < w.ppUsed[page]
             THEN LET w1 == [w EXCEPT !.ppUsed[page] = @ - remainingTruncation,
                                      !.tp[name].usedSize = @ - remainingTruncation]
                  IN  truncPages(w1, name, pt, Uint(i - 1), size, free)
             ELSE LET w1 == [w EXCEPT !.tables[pt].childPages = MapDelete(@, i)]
                  IN  IF Len(w1.tp[name].pages) = 0
                      THEN [w |-> Panic(w1, "recursiveTruncate: index out of range"),
                            empty |-> FALSE, free |-> free]
                      ELSE LET removed == LastOf(w1.tp[name].pages)
                               w2 == [w1 EXCEPT !.tp[name].pages = Front(@)]
                           IN  IF fileOff(removed) # fileOff(page)
                               THEN [w |-> Panic(w2, "removed pages weren't the same"),
                                     empty |-> FALSE, free |-> free]
                               ELSE LET free2 == Append(free, page)
                                        w3 == [w2 EXCEPT !.tp[name].usedSize = @ - w2.ppUsed[page]]
                                    IN  IF MapLen(w3.tables[pt].childPages) = 0
                                        THEN [w |-> w3, empty |-> TRUE, free |-> free2]
                                        ELSE truncPages(w3, name, pt, Uint(i - 1), size, free2)

recursiveTruncate(w, name, pt, size) ==
    IF w.tables[pt].height > 0
    THEN truncTables(w, name, pt, Uint(MapLen(w.tables[pt].childTables) - 1), size, <<>>)
    ELSE truncPages(w, name, pt, Uint(MapLen(w.tables[pt].childPages) - 1), size, <<>>)

---------------------------------------------------------------------------
(* tieredPage.defrag                                                       *)

RECURSIVE defragLoop(_, _, _)
defragLoop(w, name, free) ==
    LET root == w.tp[name].root
        node == w.tables[root]
    IN  IF ~(node.height > 0 /\ MapLen(node.childTables) = 1)
        THEN [w |-> w, free |-> free]
        ELSE IF 0 \notin DOMAIN node.childTables
        THEN [w |-> Panic(w, "defrag: nil pointer dereference"), free |-> free]
        ELSE LET child == node.childTables[0]
                 w1 == writeTieredPageEntry(w, name, w.tables[child].height,
                                            w.tp[name].usedSize, fileOff(child))
                 w2 == writeTieredPageEntry(w1, name, node.height, 0, 0)
                 w3 == [w2 EXCEPT !.tp[name].root = child,
                                  !.tables[child].parent = NoPage]
             IN  defragLoop(DelNode(w3, root), name, Append(free, root))

defrag(w, name) ==
    defragLoop(writeTieredPageEntry(w, name, w.tables[w.tp[name].root].height,
                                    w.tp[name].usedSize, fileOff(w.tp[name].root)),
               name, <<>>)

---------------------------------------------------------------------------
(* recyclingPage.freePage and the page manager's allocation                *)

availablePages(w) == Len(w.pagesToFree) + Len(w.tp["R"].pages)

\* the pages the recycler of world w can hand out
FreePages(w) ==
    {w.pagesToFree[i] : i \in 1..Len(w.pagesToFree)}
        \cup {w.tp["R"].pages[i] : i \in 1..Len(w.tp["R"].pages)}

\* the pages held by the leaves of the tree below pt
RECURSIVE pagesBelow(_, _)
pagesBelow(w, pt) ==
    IF w.tables[pt].height = 0
    THEN {w.tables[pt].childPages[i] : i \in DOMAIN w.tables[pt].childPages}
    ELSE UNION {pagesBelow(w, w.tables[pt].childTables[i]) :
                    i \in DOMAIN w.tables[pt].childTables}

\* freePage from line 274 on handing out the oldest page of the buffer
freePageOldest(w) ==
    IF Len(w.pagesToFree) = 0
    THEN [w |-> Panic(w, "freePage: slice bounds out of range"),
          page |-> NoPage, err |-> FALSE]
    ELSE [w |-> SetUsed([w EXCEPT !.pagesToFree = Tail(@), !.stale = NoPage],
                        Head(w.pagesToFree), 0),
          page |-> Head(w.pagesToFree), err |-> FALSE]

\* freePage from line 274 on, p == w.stale having been read at line 273
freePageResume(w) ==
    IF Len(w.pagesToFree) = 0
    THEN [w |-> Panic(w, "freePage: slice bounds out of range"),
          page |-> NoPage, err |-> FALSE]
    ELSE [w |-> SetUsed([w EXCEPT !.pagesToFree = Front(@), !.stale = NoPage], w.stale, 0),
          page |-> w.stale, err |-> FALSE]

freePage(w) ==
    IF availablePages(w) = 0
    THEN [w |-> w, page |-> NoPage, err |-> TRUE]
    ELSE LET page == LastOf(w.tp["R"].pages)
             called(r) ==
                 [r EXCEPT !.w.calls =
                     Append(@, [buffer |-> w.pagesToFree, pages |-> w.tp["R"].pages,
                                page |-> r.page,
                                used |-> IF r.page = NoPage THEN NoPage
                                         ELSE r.w.ppUsed[r.page],
                                free |-> FreePages(r.w),
                                inTree |-> r.page \in pagesBelow(r.w, r.w.tp["R"].root)])]
             defragged(d, free) ==
                 [w |-> SetUsed([d.w EXCEPT !.pagesToFree = @ \o Tail(free) \o d.free],
                                page, 0),
                  page |-> page, err |-> FALSE]
             truncated(r) ==
                 IF ~Ok(r.w) THEN [w |-> r.w, page |-> NoPage, err |-> FALSE]
                 ELSE IF Len(r.free) = 0
                 THEN [w |-> Panic(r.w, "freePage: index out of range"),
                       page |-> NoPage, err |-> FALSE]
                 ELSE IF r.free[1] # page
                 THEN [w |-> Panic(r.w, "Truncated page doesn't match the page to return"),
                       page |-> NoPage, err |-> FALSE]
                 ELSE defragged(defrag(r.w, "R"), r.free)
         IN  IF Len(w.pagesToFree) > 0
             THEN called(freePageResume([w EXCEPT !.stale = LastOf(w.pagesToFree)]))
             ELSE called(truncated(recursiveTruncate(w, "R", w.tp["R"].root,
                                                     w.tp["R"].usedSize - pageSize)))

\* PageManager.allocatePage: from the recycler while recycling is on and it holds
\* a page, else by extending the file.  failIn = 1 makes this call fail.
allocatePage(w) ==
    IF w.failIn = 1
    THEN [w |-> [w EXCEPT !.failIn = 0], page |-> NoPage, err |-> TRUE]
    ELSE LET allocate(w0) ==
                 IF w0.stale # NoPage
                 THEN freePageResume(w0)
                 ELSE IF w0.recyclePages /\ availablePages(w0) > 0
                 THEN freePage(w0)
                 ELSE [w |-> [w0 EXCEPT !.fileSize = @ + 1,
                                        !.ppUsed = MapPut(@, w0.fileSize, 0),
                                        !.fileData = MapPut(@, w0.fileSize,
                                                            [i \in 1..pageSize |-> 0])],
                       page |-> w0.fileSize, err |-> FALSE]
         IN  allocate([w EXCEPT !.failIn = IF @ > 1 THEN @ - 1 ELSE @])

\* PageManager.managedAllocatePage: allocatePage under pm.mu
managedAllocatePage(w) == allocatePage(w)

---------------------------------------------------------------------------
(* pageTable construction and tieredPage.insertPage                        *)

newPageTable(w, height, parent) ==
    LET allocated(a) ==
            IF a.err \/ ~Ok(a.w)
            THEN [w |-> a.w, pt |-> NoPage, err |-> a.err]
            ELSE [w |-> SetNode(a.w, a.page,
                                [height |-> height, parent |-> parent,
                                 childTables |-> EmptyMap, childPages |-> EmptyMap]),
                  pt |-> a.page, err |-> FALSE]
    IN  allocated(allocatePage(w))

\* a pageTable object lives on while a caller holds a pointer to it: w2 with
\* the object id as it was in w1, if a call in between removed it from the tree
KeepNode(w2, w1, id) ==
    IF id \in DOMAIN w2.tables THEN w2 ELSE SetNode(w2, id, w1.tables[id])

extendPageTableTree(w, root) ==
    IF w.tables[root].parent # NoPage
    THEN [w |-> Panic(w, "Pt is not the root node"), pt |-> NoPage, err |-> FALSE]
    ELSE LET created(n) ==
                 IF n.err \/ ~Ok(n.w) THEN n
                 ELSE [w |-> [KeepNode(n.w, w, root) EXCEPT
                                  !.tables[n.pt].childTables = MapPut(@, 0, root),
                                  !.tables[root].parent = n.pt],
                       pt |-> n.pt, err |-> FALSE]
         IN  created(newPageTable(w, w.tables[root].height + 1, NoPage))

RECURSIVE extendLoop(_, _, _)
extendLoop(w, name, index) ==
    IF index < maxPages(w.tables[w.tp[name].root].height)
    THEN [w |-> w, err |-> FALSE]
    ELSE LET extended(e) ==
                 IF e.err \/ ~Ok(e.w) THEN [w |-> e.w, err |-> e.err]
                 ELSE extendLoop([e.w EXCEPT !.tp[name].root = e.pt], name, index)
         IN  extended(extendPageTableTree(w, w.tp[name].root))

\* the descent of insertPage: returns the leaf table the page goes to
RECURSIVE descend(_, _, _)
descend(w, pt, pageIndex) ==
    IF ~(w.tables[pt].height > 0)
    THEN [w |-> w, pt |-> pt, err |-> FALSE]
    ELSE LET tableIndex == pageIndex \div maxPages(w.tables[pt].height - 1)
             pageIndex2 == pageIndex \div numPageEntries
         IN  IF tableIndex \in DOMAIN w.tables[pt].childTables
             THEN descend(w, w.tables[pt].childTables[tableIndex], pageIndex2)
             ELSE LET written(w2, child) ==
                          IF ~Ok(w2) THEN [w |-> w2, pt |-> NoPage, err |-> FALSE]
                          ELSE descend(w2, child, pageIndex2)
                      created(n) ==
                          IF n.err \/ ~Ok(n.w) THEN n
                          ELSE written(writeToDisk(
                                           [KeepNode(n.w, w, pt) EXCEPT
                                               !.tables[pt].childTables =
                                                   MapPut(@, tableIndex, n.pt)], pt),
                                       n.pt)
                  IN  created(newPageTable(w, w.tables[pt].height - 1, pt))

insertPage(w, name, index, pp) ==
    LET insert(d, cp) ==
            IF MapLen(cp) = numPageEntries
            THEN [w |-> Panic(d.w, "We shouldn't insert if childPages is already full"),
                  err |-> FALSE]
            ELSE IF MapLen(cp) > 0 /\ Uint((index % numPageEntries) - 1) \notin DOMAIN cp
            THEN [w |-> Panic(d.w, "Inserting shouldn't create a gap"), err |-> FALSE]
            ELSE [w |-> writeToDisk([d.w EXCEPT !.tables[d.pt].childPages =
                                                    MapPut(@, index % numPageEntries, pp)],
                                    d.pt),
                  err |-> FALSE]
        descended(d) ==
            IF d.err \/ ~Ok(d.w) THEN [w |-> d.w, err |-> d.err]
            ELSE insert(d, d.w.tables[d.pt].childPages)
        extended(e) ==
            IF e.err \/ ~Ok(e.w) THEN e
            ELSE descended(descend(e.w, e.w.tp[name].root, index))
    IN  extended(extendLoop(w, name, index))

---------------------------------------------------------------------------
(* entryPage.addPages and recyclingPage.addPages                           *)

\* the loop shared by both: insert each page, persisting the previous root's
\* descriptor entry when the root changed
RECURSIVE addLoop(_, _, _, _, _)
addLoop(w, name, pages, index, markFull) ==
    IF pages = <<>> THEN [w |-> w, err |-> FALSE]
    ELSE LET page == Head(pages)
             root == w.tp[name].root
             rootHeight == w.tables[root].height
             inserted(r) ==
                 IF r.err \/ ~Ok(r.w) THEN r
                 ELSE addLoop(IF root # r.w.tp[name].root
                              THEN writeTieredPageEntry(r.w, name, rootHeight,
                                                        maxPages(rootHeight) * pageSize,
                                                        fileOff(root))
                              ELSE r.w,
                              name, Tail(pages), index + 1, markFull)
         IN  inserted(insertPage(IF markFull THEN SetUsed(w, page, pageSize) ELSE w,
                                 name, index, page))

entryAddPages(w, name, pages, addedBytes) ==
    IF addedBytes = 0 THEN [w |-> w, err |-> FALSE]
    ELSE IF nextIndex(w, name) + Len(pages) # Len(w.tp[name].pages)
    THEN [w |-> Panic(w, "ep.pages should already contain the updated number of pages"),
          err |-> FALSE]
    ELSE LET persist(w1) ==
                 [w |-> writeTieredPageEntry(w1, name, w1.tables[w1.tp[name].root].height,
                                             w1.tp[name].usedSize, fileOff(w1.tp[name].root)),
                  err |-> FALSE]
             added(r) ==
                 IF r.err \/ ~Ok(r.w) THEN r
                 ELSE persist([r.w EXCEPT !.tp[name].usedSize = @ + addedBytes])
         IN  added(addLoop(w, name, pages, nextIndex(w, name), FALSE))

\* recyclingPage.addPages, lines 104-111: recycling is suspended and the pages
\* are appended to rp.pages
recyclerAddStart(w, pages) ==
    [w EXCEPT !.recyclePages = FALSE, !.tp["R"].pages = @ \o pages]

\* recyclingPage.addPages from line 113 on, with the deferred function
recyclerAddRest(w, pages) ==
    LET done(x) == [x EXCEPT !.recyclePages = TRUE]
        persist(w1) ==
            [w |-> done(writeTieredPageEntry(w1, "R", w1.tables[w1.tp["R"].root].height,
                                             w1.tp["R"].usedSize, fileOff(w1.tp["R"].root))),
             err |-> FALSE]
        added(r) ==
            IF r.err \/ ~Ok(r.w) THEN [w |-> done(r.w), err |-> r.err]
            ELSE persist([r.w EXCEPT !.tp["R"].usedSize = @ + Len(pages) * pageSize])
    IN  added(addLoop(w, "R", pages, nextIndex(w, "R"), TRUE))

recyclerAddPages(w, pages) == recyclerAddRest(recyclerAddStart(w, pages), pages)

---------------------------------------------------------------------------
(* Entry: seek, read, write                                                *)

\* Entry.seek clamping a negative position to the start instead of rejecting it
seekClamped(offset, cursorPage, cursorOff, numPages) ==
    LET pos == Max(0, cursorPage * pageSize + cursorOff + offset)
    IN  IF pos \div pageSize >= numPages
        THEN [err |-> FALSE, cp |-> numPages, co |-> 0]
        ELSE [err |-> FALSE, cp |-> pos \div pageSize, co |-> pos % pageSize]

\* Entry.seek(offset, &cursorPage, &cursorOff), with numPages = len(e.ep.pages)
seek(offset, cursorPage, cursorOff, numPages) ==
    LET pos == cursorPage * pageSize + cursorOff + offset
    IN  IF pos < 0
        THEN [err |-> TRUE, cp |-> cursorPage, co |-> cursorOff]
        ELSE IF pos \div pageSize >= numPages
        THEN [err |-> FALSE, cp |-> numPages, co |-> 0]
        ELSE [err |-> FALSE, cp |-> pos \div pageSize, co |-> pos % pageSize]

\* the state of the loop of Entry.read; len is len(p) (the length of readData),
\* cap is cap(p)
readStart(len, cap, cursorPage, cursorOff) ==
    [len |-> len, cap |-> cap, bytesToRead |-> len, copyDest |-> 0,
     out |-> <<>>, cp |-> cursorPage, co |-> cursorOff, halt |-> "none"]

\* the loop condition and the break of Entry.read
readDone(w, name, s) ==
    s.halt # "none" \/ s.bytesToRead <= 0 \/ s.cp >= Len(w.tp[name].pages)

\* one iteration of the loop of Entry.read
readPage(w, name, s) ==
    LET pages == w.tp[name].pages
        pid == pages[s.cp + 1]
        bytesRead == pageReadLen(w, pid, s.len, s.co)
        sk == seek(bytesRead, s.cp, s.co, Len(pages))
    IN  IF bytesRead = 0
        THEN [s EXCEPT !.halt = "read: the loop makes no progress"]
        ELSE IF s.copyDest + bytesRead > s.cap
        THEN [s EXCEPT !.cp = sk.cp, !.co = sk.co,
                       !.halt = "read: slice bounds out of range"]
        ELSE [s EXCEPT !.bytesToRead = @ - bytesRead,
                       !.cp = sk.cp, !.co = sk.co,
                       !.out = @ \o pageReadData(w, pid, bytesRead, s.co),
                       !.copyDest = @ + bytesRead]

RECURSIVE readLoop(_, _, _)
readLoop(w, name, s) ==
    IF readDone(w, name, s) THEN s ELSE readLoop(w, name, readPage(w, name, s))

\* what Entry.read returns once its loop has ended
readResult(s) ==
    [n |-> IF s.halt = "none" THEN s.copyDest ELSE 0,
     eof |-> s.halt = "none" /\ s.copyDest = 0,
     data |-> IF s.halt = "none" THEN s.out ELSE <<>>,
     cp |-> s.cp, co |-> s.co, halt |-> s.halt]

\* Entry.read(p, &cursorPage, &cursorOff): [n, eof, data, cp, co, halt]
read(w, name, len, cap, cursorPage, cursorOff) ==
    IF Len(w.tp[name].pages) = 0
    THEN [n |-> 0, eof |-> TRUE, data |-> <<>>, cp |-> cursorPage, co |-> cursorOff,
          halt |-> "none"]
    ELSE readResult(readLoop(w, name, readStart(len, cap, cursorPage, cursorOff)))

\* Entry.ReadAt(p, off): [n, eof, data, cp, co, halt, err]; err is the error of seek
readAt(w, name, len, cap, off) ==
    LET sk == seek(off, 0, 0, Len(w.tp[name].pages))
        return(r) == [n |-> r.n, eof |-> r.eof, data |-> r.data, cp |-> r.cp, co |-> r.co,
                      halt |-> r.halt, err |-> FALSE]
    IN  IF sk.err
        THEN [n |-> 0, eof |-> FALSE, data |-> <<>>, cp |-> 0, co |-> 0, halt |-> "none",
              err |-> TRUE]
        ELSE return(read(w, name, len, cap, sk.cp, sk.co))

\* which branch the next iteration of the loop of Entry.write takes
writeBranch(name, s) ==
    LET pages == s.w.tp[name].pages
        n == Len(pages)
    IN  IF s.bytesToWrite <= 0 THEN "exit"
        ELSE IF ~s.appending
                /\ (s.cp >= n
                    \/ (s.cp = n - 1 /\ s.co + s.bytesToWrite > s.w.ppUsed[pages[s.cp + 1]]))
        THEN "promote"
        ELSE IF s.cp >= n THEN "allocate"
        ELSE "page"

\* lines 219-232: the restart of the loop under the write lock
writePromote(s) ==
    [s EXCEPT !.appending = TRUE, !.cp = s.bcp, !.co = s.bco,
              !.bytesToWrite = Len(s.p), !.writeCursor = 0,
              !.byteIncrease = 0, !.addedPages = <<>>]

\* lines 235-251: a new page is allocated and appended to ep.pages
writeAllocate(name, s) ==
    LET appended(w1, page, full) ==
            [s EXCEPT !.w = IF full THEN SetUsed(w1, page, pageSize) ELSE w1,
                      !.addedPages = Append(@, page),
                      !.byteIncrease = IF full THEN @ + pageSize ELSE @]
        allocated(a) ==
            IF a.err \/ ~Ok(a.w) THEN [s EXCEPT !.w = a.w, !.err = a.err]
            ELSE appended([a.w EXCEPT !.tp[name].pages = Append(@, a.page)], a.page,
                          s.cp >= Len(a.w.tp[name].pages) + 1)
    IN  allocated(managedAllocatePage(s.w))

\* lines 253-271: a part of p is written to the page under the cursor
writePage(name, s) ==
    LET pages == s.w.tp[name].pages
        page == pages[s.cp + 1]
        buf == SubSeq(s.p, s.writeCursor + 1, Len(s.p))
        bytesWritten == pageWriteLen(Len(buf), s.co)
        sk == seek(bytesWritten, s.cp, s.co, Len(pages))
        written(w1) ==
            [s EXCEPT !.w = w1,
                      !.byteIncrease = @ + (w1.ppUsed[page] - s.w.ppUsed[page]),
                      !.bytesToWrite = @ - bytesWritten,
                      !.cp = sk.cp, !.co = sk.co,
                      !.writeCursor = @ + bytesWritten]
    IN  written(pageWriteAt(s.w, page, buf, s.co))

\* the loop of Entry.write
RECURSIVE writeLoop(_, _)
writeLoop(name, s) ==
    LET allocated(s1) == IF s1.err \/ ~Ok(s1.w) THEN s1 ELSE writeLoop(name, s1)
        branch(b) ==
            IF b = "exit" THEN s
            ELSE IF b = "promote" THEN writeLoop(name, writePromote(s))
            ELSE IF b = "allocate" THEN allocated(writeAllocate(name, s))
            ELSE writeLoop(name, writePage(name, s))
    IN  branch(writeBranch(name, s))

writeStart(w, p, cursorPage, cursorOff) ==
    [w |-> w, p |-> p, cp |-> cursorPage, co |-> cursorOff,
     bcp |-> cursorPage, bco |-> cursorOff, bytesToWrite |-> Len(p),
     byteIncrease |-> 0, addedPages |-> <<>>, writeCursor |-> 0,
     appending |-> FALSE, err |-> FALSE]

\* Entry.write(p, &cursorPage, &cursorOff): [w, n, err, cp, co]
write(w, name, p, cursorPage, cursorOff) ==
    LET added(a, s) ==
            [w |-> a.w, n |-> IF a.err \/ ~Ok(a.w) THEN 0 ELSE Len(p),
             err |-> a.err, cp |-> s.cp, co |-> s.co]
        written(s) ==
            IF s.err \/ ~Ok(s.w)
            THEN [w |-> s.w, n |-> 0, err |-> s.err, cp |-> s.cp, co |-> s.co]
            ELSE added(entryAddPages(s.w, name, s.addedPages, s.byteIncrease), s)
    IN  written(writeLoop(name, writeStart(w, p, cursorPage, cursorOff)))

\* Entry.Truncate taking its argument for the number of bytes to remove
truncateBy(w, name, size) ==
    LET freed(a, pages) == [w |-> a.w, err |-> a.err, freed |-> pages]
        defragged(d, free) ==
            IF ~Ok(d.w) THEN [w |-> d.w, err |-> FALSE, freed |-> <<>>]
            ELSE freed(recyclerAddPages(d.w, free \o d.free), free \o d.free)
        truncated(r) ==
            IF ~Ok(r.w) THEN [w |-> r.w, err |-> FALSE, freed |-> <<>>]
            ELSE defragged(defrag(r.w, name), r.free)
    IN  truncated(recursiveTruncate(w, name, w.tp[name].root,
                                    Max(0, w.tp[name].usedSize - size)))

\* Entry.Truncate(size): [w, err, freed]; freed is what is handed to the recycler
truncate(w, name, size) ==
    LET freed(a, pages) == [w |-> a.w, err |-> a.err, freed |-> pages]
        defragged(d, free) ==
            IF ~Ok(d.w) THEN [w |-> d.w, err |-> FALSE, freed |-> <<>>]
            ELSE freed(recyclerAddPages(d.w, free \o d.free), free \o d.free)
        truncated(r) ==
            IF ~Ok(r.w) THEN [w |-> r.w, err |-> FALSE, freed |-> <<>>]
            ELSE defragged(defrag(r.w, name), r.free)
    IN  truncated(recursiveTruncate(w, name, w.tp[name].root, size))

---------------------------------------------------------------------------
(* tieredPage.recoverTree                                                  *)

\* recursiveRecovery(parent, height, &remainingBytes).  st carries the node
\* objects built so far, *remainingBytes, and the recovered pages in order.
RECURSIVE recursiveRecovery(_, _, _, _), recoverEntries(_, _, _, _, _)

\* the loop over the entries read from the parent's page
recoverEntries(w, parent, height, entries, st) ==
    IF entries = <<>> THEN st
    ELSE LET offset == Head(entries)
             pid == offset \div pageSize
         IN  IF height > 0
             THEN LET recovered(st2) ==
                          recoverEntries(w, parent, height, Tail(entries),
                                         [st2 EXCEPT !.nodes[parent].childTables =
                                                         MapPut(@, Uint(MapLen(@) - 1), pid)])
                  IN  recovered(recursiveRecovery(
                                    w, pid, height - 1,
                                    [st EXCEPT !.nodes =
                                        MapPut(@, pid, [height |-> height, parent |-> parent,
                                                        childTables |-> EmptyMap,
                                                        childPages |-> EmptyMap])]))
             ELSE LET used == IF st.remainingBytes > pageSize THEN pageSize
                              ELSE st.remainingBytes
                      st1 == [st EXCEPT !.remainingBytes = @ - used,
                                        !.nodes[parent].childPages =
                                            MapPut(@, Uint(MapLen(@) - 1), pid),
                                        !.pages = Append(@, [fileOff |-> offset,
                                                             usedSize |-> used])]
                  IN  recoverEntries(w, parent, height, Tail(entries), st1)

recursiveRecovery(w, parent, height, st) ==
    recoverEntries(w, parent, height, readPageTable(w, parent), st)

\* tieredPage.recoverTree(rootOff, height) of a tiered page whose usedSize was
\* set to usedSize: [root, nodes, pages]
recoverTree(w, usedSize, rootOff, height) ==
    LET root == rootOff \div pageSize
        recovered(st) == [root |-> root, nodes |-> st.nodes, pages |-> st.pages]
    IN  recovered(recursiveRecovery(w, root, height,
                      [nodes |-> MapPut(EmptyMap, root,
                                        [height |-> height, parent |-> NoPage,
                                         childTables |-> EmptyMap, childPages |-> EmptyMap]),
                       remainingBytes |-> usedSize, pages |-> <<>>]))

\* reloading a tiered page from its descriptor: the entry of the live root's
\* height gives (used_size, root offset)
reload(w, name) ==
    LET height == w.tables[w.tp[name].root].height
        recover(e) == recoverTree(w, e.usedBytes, e.pageOff, height)
    IN  recover(readEntryPageEntry(w, name, height))

---------------------------------------------------------------------------
(* The sequential specification: one cursor e1 on entry A                  *)

\* the bytes the k-th mutating operation writes
Payload(k, len) == [j \in 1..len |-> 10 * k + j]

NoLast == [op |-> "none"]

IdleThreads == [t \in {"w", "r", "b"} |-> [pc |-> "idle"]]

FreeLocks == [e \in Entries |-> [readers |-> 0, writer |-> FALSE]]

\* the key of an entry in pm.entryPages
Identifier(e) == fileOff(tp[e].pp)

\* the page manager with its entries A and B and the recycler R, no page written
InitStore ==
    /\ tp = [n \in {"R", "A", "B"} |->
                [root |-> IF n = "R" THEN 3 ELSE IF n = "A" THEN 4 ELSE 5,
                 usedSize |-> 0, pages |-> <<>>,
                 pp |-> IF n = "R" THEN 0 ELSE IF n = "A" THEN 1 ELSE 2]]
    /\ pagesToFree = <<>>
    /\ tables = [id \in {3, 4, 5} |->
                    [height |-> 0, parent |-> NoPage,
                     childTables |-> EmptyMap, childPages |-> EmptyMap]]
    /\ ppUsed = [id \in 0..5 |-> 0]
    /\ fileData = [id \in 0..5 |-> [i \in 1..pageSize |-> 0]]
    /\ diskTable = [id \in {3, 4, 5} |-> [numEntries |-> 0, slots |-> <<>>]]
    /\ descr = [n \in {"R", "A", "B"} |->
                   [h \in 0..MaxHeight |->
                       [usedBytes |-> PutVarint(0),
                        pageOff |-> IF h = 0
                                    THEN PutVarint(fileOff(IF n = "R" THEN 3
                                                           ELSE IF n = "A" THEN 4 ELSE 5))
                                    ELSE PutVarint(0)]]]
    /\ fileSize = 6
    /\ recyclePages = TRUE
    /\ panicMsg = "none"
    /\ cursor = [h \in {"e1", "e2"} |-> [cursorPage |-> 0, cursorOff |-> 0]]
    /\ last = NoLast
    /\ opCount = 0
    /\ epLock = FreeLocks
    /\ pmLock = "free"

\* one open cursor on each entry
Init ==
    /\ InitStore
    /\ th = IdleThreads
    /\ instanceCounter = [e \in Entries |-> 1]
    /\ entryPages = {Identifier(e) : e \in Entries}

Running == panicMsg = "none"

EntryWrite(h, len, fail) ==
    /\ Running /\ opCount < MaxOps
    /\ LET p == Payload(opCount + 1, len)
           return(r) ==
               /\ SetWorld(r.w)
               /\ cursor' = [cursor EXCEPT ![h] = [cursorPage |-> r.cp, cursorOff |-> r.co]]
               /\ last' = [op |-> "Write", h |-> h, p |-> p, n |-> r.n, err |-> r.err,
                           pre |-> cursor[h], calls |-> r.w.calls]
       IN  return(write([World EXCEPT !.failIn = fail], EntryOf(h), p,
                        cursor[h].cursorPage, cursor[h].cursorOff))
    /\ opCount' = opCount + 1
    /\ UNCHANGED <<instanceCounter, entryPages, th, epLock, pmLock>>

EntryWriteAt(h, len, off, fail) ==
    /\ Running /\ opCount < MaxOps
    /\ LET p == Payload(opCount + 1, len)
           sk == seek(off, 0, 0, Len(tp[EntryOf(h)].pages))
           return(r) ==
               /\ SetWorld(r.w)
               /\ last' = [op |-> "WriteAt", h |-> h, p |-> p, off |-> off, n |-> r.n,
                           err |-> r.err, calls |-> r.w.calls]
       IN  IF sk.err
           THEN return([w |-> World, n |-> 0, err |-> TRUE])
           ELSE return(write([World EXCEPT !.failIn = fail], EntryOf(h), p, sk.cp, sk.co))
    /\ opCount' = opCount + 1
    /\ UNCHANGED <<instanceCounter, entryPages, cursor, th, epLock, pmLock>>

EntryRead(h, len, cap) ==
    /\ Running /\ opCount < MaxOps
    /\ LET return(r) ==
               /\ cursor' = [cursor EXCEPT ![h] = [cursorPage |-> r.cp, cursorOff |-> r.co]]
               /\ panicMsg' = r.halt
               /\ last' = [op |-> "Read", h |-> h, len |-> len, cap |-> cap,
                           off |-> cursor[h].cursorPage * pageSize + cursor[h].cursorOff,
                           n |-> r.n, eof |-> r.eof, data |-> r.data, err |-> FALSE]
       IN  return(read(World, EntryOf(h), len, cap, cursor[h].cursorPage,
                       cursor[h].cursorOff))
    /\ opCount' = opCount + 1
    /\ UNCHANGED <<instanceCounter, entryPages, tp, pagesToFree, tables, ppUsed, fileData, diskTable, descr, fileSize,
                   recyclePages, th, epLock, pmLock>>

EntryReadAt(h, len, cap, off) ==
    /\ Running /\ opCount < MaxOps
    /\ LET return(r) ==
               /\ panicMsg' = r.halt
               /\ last' = [op |-> "ReadAt", h |-> h, len |-> len, cap |-> cap, off |-> off,
                           n |-> r.n, eof |-> r.eof, data |-> r.data, err |-> r.err]
       IN  return(readAt(World, EntryOf(h), len, cap, off))
    /\ opCount' = opCount + 1
    /\ UNCHANGED <<instanceCounter, entryPages, tp, pagesToFree, tables, ppUsed, fileData, diskTable, descr, fileSize,
                   recyclePages, cursor, th, epLock, pmLock>>

\* Entry.Seek(offset, whence)
EntrySeek(h, offset, whence) ==
    /\ Running /\ opCount < MaxOps
    /\ LET numPages == Len(tp[EntryOf(h)].pages)
           pageNum == IF whence = "SeekCurrent" THEN cursor[h].cursorPage
                      ELSE IF whence = "SeekEnd" THEN numPages ELSE 0
           pageOff == IF whence = "SeekCurrent" THEN cursor[h].cursorOff ELSE 0
           sk == seek(offset, pageNum, pageOff, numPages)
       IN  /\ cursor' = IF sk.err THEN cursor
                        ELSE [cursor EXCEPT ![h] = [cursorPage |-> sk.cp, cursorOff |-> sk.co]]
           /\ last' = [op |-> "Seek", h |-> h, whence |-> whence, offset |-> offset,
                       n |-> IF sk.err THEN 0 ELSE sk.cp * pageSize + sk.co,
                       err |-> sk.err, pre |-> cursor[h]]
    /\ opCount' = opCount + 1
    /\ UNCHANGED <<instanceCounter, entryPages, tp, pagesToFree, tables, ppUsed, fileData, diskTable, descr, fileSize,
                   recyclePages, panicMsg, th, epLock, pmLock>>

EntryTruncate(h, size) ==
    /\ Running /\ opCount < MaxOps
    /\ LET return(r) ==
               /\ SetWorld(r.w)
               /\ last' = [op |-> "Truncate", h |-> h, size |-> size, err |-> r.err,
                           freed |-> r.freed,
                           prePages |-> tp[EntryOf(h)].pages,
                           preUsed |-> tp[EntryOf(h)].usedSize]
       IN  return(truncate(World, EntryOf(h), size))
    /\ opCount' = opCount + 1
    /\ UNCHANGED <<instanceCounter, entryPages, cursor, th, epLock, pmLock>>

Whences == {"SeekStart", "SeekCurrent", "SeekEnd"}

Next ==
    \/ \E len \in 1..MaxLen, fail \in 0..MaxFail : EntryWrite("e1", len, fail)
    \/ \E len \in 1..MaxLen, off \in 0..MaxOff, fail \in 0..MaxFail :
           EntryWriteAt("e1", len, off, fail)
    \/ \E len \in 1..MaxReadLen, extra \in {0, pageSize} : EntryRead("e1", len, len + extra)
    \/ \E len \in 1..MaxReadLen, extra \in {0, pageSize}, off \in 0..MaxOff :
           EntryReadAt("e1", len, len + extra, off)
    \/ \E offset \in (0 - MaxOff)..MaxOff, whence \in Whences : EntrySeek("e1", offset, whence)
    \/ \E size \in (0 - 1)..MaxOff : EntryTruncate("e1", size)

Spec == Init /\ [][Next]_vars

---------------------------------------------------------------------------
(* Properties of the sequential specification                              *)

CeilPages(size) == (size + pageSize - 1) \div pageSize

RECURSIVE SumUsed(_, _)
SumUsed(used, pages) ==
    IF pages = <<>> THEN 0 ELSE used[Head(pages)] + SumUsed(used, Tail(pages))

\* the slot of logical page index i at a node of the given height
Slot(i, height) == (i \div Pow(numPageEntries, height)) % numPageEntries

\* the page the tree below pt holds for logical index i, NoPage if the path ends
RECURSIVE Lookup(_, _)
Lookup(pt, i) ==
    LET node == tables[pt]
        slot == Slot(i, node.height)
    IN  IF slot \notin DOMAIN Children(node) THEN NoPage
        ELSE IF node.height = 0 THEN node.childPages[slot]
        ELSE Lookup(node.childTables[slot], i)

Dense(m) == DOMAIN m = 0..(MapLen(m) - 1)

\* C1: after WriteAt(p, off) succeeded, for every off >= 0 (also beyond the end
\* of the entry), ReadAt with a buffer of len(p) at off returns exactly p.
C1_WriteAtRoundTrip ==
    (Running /\ last.op = "WriteAt" /\ ~last.err) =>
        LET returns(r) == r.halt = "none" /\ ~r.eof /\ r.data = last.p
        IN  returns(readAt(World, EntryOf(last.h), Len(last.p), Len(last.p), last.off))

\* C2: between operations, also after one that returned an error, every entry
\* has len(pages) = ceil(used_size / PAGE_SIZE) and used_size is the sum of the
\* used_size of the pages in its pages list.
C2_PagesMatchUsedSize ==
    Running =>
        \A e \in Entries :
            /\ Len(tp[e].pages) = CeilPages(tp[e].usedSize)
            /\ tp[e].usedSize = SumUsed(ppUsed, tp[e].pages)

\* C3: a Read/ReadAt with a buffer of length L at logical offset off returns
\* min(L, bytes from off to the end of the entry) bytes, never more than L, and
\* EOF only when it delivers zero bytes.
C3_ReadCount ==
    (Running /\ last.op \in {"Read", "ReadAt"} /\ last.off >= 0) =>
        /\ last.n = Min(last.len, Max(0, tp[EntryOf(last.h)].usedSize - last.off))
        /\ last.n <= last.len
        /\ last.eof => last.n = 0

\* C5: in every tree, at every height it reaches, the occupied slots of every
\* node are a prefix 0..k-1, and the page of logical index i is found by taking
\* the slot (i / FANOUT^h) mod FANOUT at every level h.  Checked between
\* operations and where the serialization of an inserted node stops the process.
C5_DenseTree ==
    panicMsg \in {"none", "marshal: nil pointer dereference"} =>
    /\ \A pt \in DOMAIN tables : Dense(Children(tables[pt]))
    /\ \A name \in {"R", "A", "B"} :
           \A i \in 0..(CeilPages(tp[name].usedSize) - 1) :
               i < Len(tp[name].pages) => Lookup(tp[name].root, i) = tp[name].pages[i + 1]

\* C6: after Truncate(s) with 0 <= s < used_size returned, used_size = s,
\* len(pages) = ceil(s / PAGE_SIZE), the pages left are the first ones in their
\* old order, and every removed page went to the recycler's addPages.
C6_TruncateResult ==
    (Running /\ last.op = "Truncate" /\ ~last.err
     /\ 0 <= last.size /\ last.size < last.preUsed) =>
        LET e == EntryOf(last.h)
            k == CeilPages(last.size)
        IN  /\ tp[e].usedSize = last.size
            /\ Len(tp[e].pages) = k
            /\ k <= Len(last.prePages)
            /\ tp[e].pages = SubSeq(last.prePages, 1, k)
            /\ \A i \in (k + 1)..Len(last.prePages) :
                   last.prePages[i] \in SeqToSet(last.freed)

\* C7: after the defrag of a Truncate, whatever the size (0 included), the root
\* has height 0 or more than one child.
C7_DefragRoot ==
    (Running /\ last.op = "Truncate" /\ last.size >= 0) =>
        LET node == tables[tp[EntryOf(last.h)].root]
        IN  node.height = 0 \/ MapLen(Children(node)) > 1

\* C8: between operations, recoverTree from the on-disk descriptor entry yields
\* the pages list of the in-memory entry: same length, same offsets in the same
\* order, same used_size per page.
C8_RecoveryMatches ==
    Running =>
        \A e \in Entries :
            LET matches(r) ==
                    /\ Len(r.pages) = Len(tp[e].pages)
                    /\ \A i \in 1..Len(r.pages) :
                           /\ r.pages[i].fileOff = fileOff(tp[e].pages[i])
                           /\ r.pages[i].usedSize = ppUsed[tp[e].pages[i]]
            IN  matches(reload(World, e))

\* C10: between operations, every data page of an entry except the last one of
\* its pages list has used_size = PAGE_SIZE.
C10_OnlyLastPartial ==
    Running =>
        \A e \in Entries :
            \A i \in 1..(Len(tp[e].pages) - 1) : ppUsed[tp[e].pages[i]] = pageSize

\* C11: between operations (Read, Write, Seek, Truncate in any order), every
\* cursor has 0 <= cursor_off < PAGE_SIZE and 0 <= cursor_page <= len(pages).
C11_CursorInRange ==
    Running =>
        \A h \in DOMAIN cursor :
            /\ 0 <= cursor[h].cursorOff /\ cursor[h].cursorOff < pageSize
            /\ 0 <= cursor[h].cursorPage
            /\ cursor[h].cursorPage <= Len(tp[EntryOf(h)].pages)

\* C12: when a Write call returns an error, the cursor of the calling Entry
\* equals its value before the call.
C12_FailedWriteKeepsCursor ==
    (Running /\ last.op = "Write" /\ last.err) => cursor[last.h] = last.pre

\* C14: directly after a Truncate(size) with size >= 0, a second Truncate(size)
\* leaves the entry's used size, its pages list, the tree (root and every node),
\* the on-disk descriptor and the recycler's set of free pages unchanged.
C14_TruncateIdempotent ==
    (Running /\ last.op = "Truncate" /\ last.size >= 0) =>
        LET name == EntryOf(last.h)
            same(r) ==
                /\ Ok(r.w)
                /\ r.w.tp[name] = tp[name]
                /\ r.w.tables = tables
                /\ r.w.descr[name] = descr[name]
                /\ FreePages(r.w) = FreePages(World)
        IN  same(truncate(World, name, last.size))

C14_Witness ==
    /\ Running /\ last.op = "Truncate" /\ last.size > 0
    /\ Len(last.prePages) > numPageEntries
    /\ Len(last.freed) > 1
    /\ tp[EntryOf(last.h)].usedSize = last.size

DescriptorClean(name) ==
    LET height == tables[tp[name].root].height
    IN  \A h \in DOMAIN descr[name] :
            readEntryPageEntry(World, name, h) =
                IF h = height
                THEN [usedBytes |-> tp[name].usedSize, pageOff |-> fileOff(tp[name].root)]
                ELSE [usedBytes |-> 0, pageOff |-> 0]

\* C17: between operations, after any sequence of writes and truncates, the
\* descriptor of the entry holds (used_size, root page offset) in the slot of the
\* current root height and every other slot is zero.
C17_DescriptorSlots ==
    Running => DescriptorClean("A")

\* the page table nodes of the in-memory tree below pt
RECURSIVE TreeNodes(_)
TreeNodes(pt) ==
    IF tables[pt].height = 0 THEN {pt}
    ELSE {pt} \cup UNION {TreeNodes(tables[pt].childTables[i]) :
                              i \in DOMAIN tables[pt].childTables}

\* the in-memory child list of a node as offsets in slot order
MemChildren(node) ==
    [i \in 1..MapLen(Children(node)) |->
        IF (i - 1) \in DOMAIN Children(node) THEN fileOff(Children(node)[i - 1])
        ELSE NoPage]

\* C18: between operations, after any sequence of Write and Truncate, the child
\* list last written to disk for every page table node in the entry's tree
\* equals the node's in-memory child list.
C18_DiskMatchesMemory ==
    Running =>
        \A pt \in TreeNodes(tp["A"].root) :
            readPageTable(World, pt) = MemChildren(tables[pt])

\* the panics of the sanity checks of the source
SanityChecks ==
    {"ep.pages should already contain the updated number of pages",
     "Inserting shouldn't create a gap",
     "We shouldn't insert if childPages is already full",
     "Pt is not the root node",
     "removed pages weren't the same",
     "Truncated page doesn't match the page to return"}

\* C20: the check of entryPage.addPages, nextIndex + len(pages) = len(ep.pages),
\* holds on every call made by Write and WriteAt, and no sanity check of the
\* source fails in any sequence of Write, WriteAt, Seek and Truncate.
C20_NoSanityPanic ==
    panicMsg \notin SanityChecks





---------------------------------------------------------------------------
(* The specification of offsets: the operations of one cursor with         *)
(* negative offsets among their arguments                                  *)

NextOffsets ==
    \/ \E len \in {1, pageSize + 1} : EntryWrite("e1", len, 0)
    \/ \E off \in (0 - MaxOff)..pageSize : EntryWriteAt("e1", 1, off, 0)
    \/ \E off \in (0 - MaxOff)..1 : EntryReadAt("e1", 1, 1, off)
    \/ \E offset \in (0 - MaxOff)..MaxOff, whence \in Whences : EntrySeek("e1", offset, whence)
    \/ \E size \in {0, 1} : EntryTruncate("e1", size)

SpecOffsets == Init /\ [][NextOffsets]_vars

\* the byte offset a Seek with this whence starts from
SeekBase(h, whence) ==
    IF whence = "SeekCurrent" THEN cursor[h].cursorPage * pageSize + cursor[h].cursorOff
    ELSE IF whence = "SeekEnd" THEN Len(tp[EntryOf(h)].pages) * pageSize
    ELSE 0

\* the step is a Seek whose resulting byte offset is negative, or a ReadAt or
\* WriteAt with a negative offset
NegativeOffsetStep ==
    /\ opCount' = opCount + 1
    /\ \/ last'.op = "Seek" /\ SeekBase(last'.h, last'.whence) + last'.offset < 0
       \/ last'.op \in {"ReadAt", "WriteAt"} /\ last'.off < 0

\* C13: a Seek whose resulting byte offset is negative returns an error and
\* leaves the cursor and the entry unchanged; ReadAt and WriteAt with a negative
\* offset return an error, deliver no byte and change no page.
C13_NegativeOffsetRejected ==
    [][NegativeOffsetStep =>
          /\ last'.err /\ last'.n = 0
          /\ UNCHANGED <<tp, pagesToFree, tables, ppUsed, fileData, diskTable, descr,
                         fileSize, recyclePages, panicMsg, cursor>>]_vars

\* a Seek from a cursor behind the start of the entry was rejected
C13_Witness ==
    /\ last.op = "Seek" /\ last.err /\ last.whence = "SeekCurrent"
    /\ last.pre.cursorPage > 0
    /\ cursor["e1"] = last.pre

---------------------------------------------------------------------------
(* The specification of the recycler: a user of the page manager allocates *)
(* pages and hands pages back                                              *)

\* the number of pages of the LIFO scenario
NumLifo == 2 * numPageEntries

\* the operations of one behaviour
MaxPmOps == 13

NoPm == [held |-> <<>>, freed |-> <<>>, got |-> <<>>, wasEmpty |-> FALSE]

\* held: the pages the user holds; freed: the pages of the last addPages call;
\* got: the pages allocated since; wasEmpty: the recycler was empty at that call
Pm == IF last.op \in {"Allocate", "AddPages"}
      THEN [held |-> last.held, freed |-> last.freed, got |-> last.got,
            wasEmpty |-> last.wasEmpty]
      ELSE NoPm

\* PageManager.managedAllocatePage()
PmAllocatePage ==
    /\ Running /\ opCount < MaxPmOps /\ Len(Pm.held) < NumLifo
    /\ LET return(r) ==
               /\ SetWorld(r.w)
               /\ last' = [op |-> "Allocate", held |-> Append(Pm.held, r.page),
                           freed |-> Pm.freed, got |-> Append(Pm.got, r.page),
                           wasEmpty |-> Pm.wasEmpty]
       IN  return(managedAllocatePage(World))
    /\ opCount' = opCount + 1
    /\ UNCHANGED <<instanceCounter, entryPages, cursor, th, epLock, pmLock>>

\* pm.freePages.addPages(pages) with the first k pages the user holds
PmAddPages(k) ==
    /\ Running /\ opCount < MaxPmOps /\ k <= Len(Pm.held)
    /\ LET pages == SubSeq(Pm.held, 1, k)
           return(r) ==
               /\ SetWorld(r.w)
               /\ last' = [op |-> "AddPages", held |-> SubSeq(Pm.held, k + 1, Len(Pm.held)),
                           freed |-> pages, got |-> <<>>,
                           wasEmpty |-> availablePages(World) = 0]
       IN  return(recyclerAddPages(World, pages))
    /\ opCount' = opCount + 1
    /\ UNCHANGED <<instanceCounter, entryPages, cursor, th, epLock, pmLock>>

NextRecycler ==
    \/ PmAllocatePage
    \/ \E k \in 1..NumLifo : PmAddPages(k)

SpecRecycler == Init /\ [][NextRecycler]_vars

Reverse(s) == [i \in 1..Len(s) |-> s[Len(s) + 1 - i]]

\* C16: when NumLifo pages p1..pN are handed to an empty recycler in that order
\* and NumLifo pages are then allocated with no operation in between, the
\* allocations return pN, ..., p1 in that order.
C16_LifoOrder ==
    (/\ last.op = "Allocate" /\ last.wasEmpty
     /\ Len(last.freed) = NumLifo /\ Len(last.got) = NumLifo)
        => last.got = Reverse(last.freed)

---------------------------------------------------------------------------
(* The specification of Close: every open cursor is closed once, by its    *)
(* own thread                                                              *)

\* the cursors, each used by its own thread
Cursors == {"c1", "c2", "c3", "c4"}

\* lines 35-38 of Entry.Close, run with pm.mu held: the counter of the entry
\* page and the keys of pm.entryPages after them
closeDeleteAlways(counter, registry, id) ==
    [counter |-> Uint(counter - 1), registry |-> registry \ {id}]

closeBody(counter, registry, id) ==
    [counter |-> Uint(counter - 1),
     registry |-> IF Uint(counter - 1) = 0 THEN registry \ {id} ELSE registry]

\* the cursors of entry e that count in its instanceCounter
Counted(e) == {c \in Cursors : th[c].e = e /\ th[c].pc \in {"open", "locked"}}

\* any number of the cursors open, each on entry A or B; instanceCounter counts
\* the open cursors of an entry, which is registered while it has one
InitClose ==
    /\ InitStore
    /\ th \in [Cursors -> [pc : {"open", "none"}, e : Entries]]
    /\ instanceCounter = [e \in Entries |-> Cardinality(Counted(e))]
    /\ entryPages = {Identifier(e) : e \in {x \in Entries : Counted(x) # {}}}

\* line 31: e.ep.pm.mu.Lock()
CloseLock(c) ==
    /\ th[c].pc = "open" /\ pmLock = "free"
    /\ pmLock' = c
    /\ th' = [th EXCEPT ![c].pc = "locked"]
    /\ UNCHANGED <<instanceCounter, entryPages, tp, pagesToFree, tables, ppUsed, fileData,
                   diskTable, descr, fileSize, recyclePages, panicMsg, cursor, last,
                   opCount, epLock>>

\* lines 35-38: the decrement and the removal from pm.entryPages
CloseDecrement(c) ==
    /\ th[c].pc = "locked" /\ pmLock = c
    /\ LET e == th[c].e
           return(r) ==
               /\ instanceCounter' = [instanceCounter EXCEPT ![e] = r.counter]
               /\ entryPages' = r.registry
       IN  return(closeBody(instanceCounter[e], entryPages, Identifier(e)))
    /\ th' = [th EXCEPT ![c].pc = "counted"]
    /\ UNCHANGED <<tp, pagesToFree, tables, ppUsed, fileData, diskTable, descr, fileSize,
                   recyclePages, panicMsg, cursor, last, opCount, epLock, pmLock>>

\* line 32, deferred: e.ep.pm.mu.Unlock()
CloseUnlock(c) ==
    /\ th[c].pc = "counted" /\ pmLock = c
    /\ pmLock' = "free"
    /\ th' = [th EXCEPT ![c].pc = "closed"]
    /\ UNCHANGED <<instanceCounter, entryPages, tp, pagesToFree, tables, ppUsed, fileData,
                   diskTable, descr, fileSize, recyclePages, panicMsg, cursor, last,
                   opCount, epLock>>

NextClose ==
    \/ \E c \in Cursors : CloseLock(c)
    \/ \E c \in Cursors : CloseDecrement(c)
    \/ \E c \in Cursors : CloseUnlock(c)

SpecClose == InitClose /\ [][NextClose]_vars

\* the counter of every entry is the number of its cursors not yet counted out
\* (so it never passes below 0), and the entry is registered exactly while the
\* counter is above 0
CloseCounts ==
    \A e \in Entries :
        /\ instanceCounter[e] = Cardinality(Counted(e))
        /\ (instanceCounter[e] > 0) <=> (Identifier(e) \in entryPages)

\* a step that changes the registry is taken by the holder of pm.mu, which
\* keeps the lock, and removes the entry whose counter the step brings to 0
RemovalStep ==
    entryPages' # entryPages =>
        /\ pmLock \in Cursors /\ pmLock' = pmLock
        /\ instanceCounter[th[pmLock].e] = 1
        /\ instanceCounter'[th[pmLock].e] = 0
        /\ entryPages' = entryPages \ {Identifier(th[pmLock].e)}

---------------------------------------------------------------------------
(* The concurrent specification: thread w writes entry A, thread r reads   *)
(* entry A, thread b writes entry B.  An operation is cut where it takes   *)
(* or releases a lock, between the pages it reads or writes, and after the *)
(* read of pagesToFree in freePage.                                        *)

Threads == {"w", "r", "b"}

ThreadEntry(t) == IF t = "b" THEN "B" ELSE "A"

ThreadHandle(t) == IF t = "b" THEN "e2" ELSE "e1"

AllIdle == \A t \in Threads : th[t].pc = "idle"

\* sync.RWMutex: RLock waits for the writer and for a pending Lock
CanRLock(e) ==
    /\ ~epLock[e].writer
    /\ \A t \in Threads : ~(th[t].pc = "promote" /\ ThreadEntry(t) = e)

CanLock(e) == epLock[e].readers = 0 /\ ~epLock[e].writer

\* the live bytes of an entry, page after page
RECURSIVE ContentOf(_, _)
ContentOf(w, pages) ==
    IF pages = <<>> THEN <<>>
    ELSE SubSeq(w.fileData[Head(pages)], 1, w.ppUsed[Head(pages)])
             \o ContentOf(w, Tail(pages))

Content(w, name) == ContentOf(w, w.tp[name].pages)

\* the loop state of a thread's write with the shared state put in
WithWorld(t) == [th[t].s EXCEPT !.w = [World EXCEPT !.stale = th[t].stale]]

LocalOf(s) == [s EXCEPT !.w = 0]

\* what line 273 of freePage reads when allocatePage gets there
PeekPagesToFree ==
    IF recyclePages /\ Len(pagesToFree) > 0 THEN LastOf(pagesToFree) ELSE NoPage

\* Entry.Write / Entry.WriteAt up to the loop of Entry.write: RLock and the seek.
\* before and after are the entry's bytes at the call and as the call leaves
\* them when it runs alone.
ConcWriteBegin(t, op, len, off) ==
    /\ Running /\ th[t].pc = "idle"
    /\ CanRLock(ThreadEntry(t))
    /\ LET e == ThreadEntry(t)
           h == ThreadHandle(t)
           p == Payload(IF t = "w" THEN 8 ELSE 9, len)
           sk == seek(off, 0, 0, Len(tp[e].pages))
           cp == IF op = "WriteAt" THEN sk.cp ELSE cursor[h].cursorPage
           co == IF op = "WriteAt" THEN sk.co ELSE cursor[h].cursorOff
       IN  th' = [th EXCEPT ![t] =
                     [pc |-> "loop", op |-> op, stale |-> NoPage,
                      before |-> Content(World, e),
                      after |-> Content(write(World, e, p, cp, co).w, e),
                      s |-> LocalOf(writeStart(World, p, cp, co))]]
    /\ epLock' = [epLock EXCEPT ![ThreadEntry(t)].readers = @ + 1]
    /\ UNCHANGED <<instanceCounter, entryPages, tp, pagesToFree, tables, ppUsed, fileData, diskTable, descr, fileSize,
                   recyclePages, panicMsg, cursor, last, opCount, pmLock>>

\* lines 253-271 of Entry.write: one page is written
ConcWritePage(t) ==
    /\ Running /\ th[t].pc = "loop"
    /\ writeBranch(ThreadEntry(t), WithWorld(t)) = "page"
    /\ LET written(s1) ==
               /\ SetWorld(s1.w)
               /\ th' = [th EXCEPT ![t].s = LocalOf(s1)]
       IN  written(writePage(ThreadEntry(t), WithWorld(t)))
    /\ UNCHANGED <<instanceCounter, entryPages, cursor, last, opCount, epLock, pmLock>>

\* lines 219-220: the write is found to append and gives up the read lock
ConcWriteRUnlock(t) ==
    /\ Running /\ th[t].pc = "loop"
    /\ writeBranch(ThreadEntry(t), WithWorld(t)) = "promote"
    /\ epLock' = [epLock EXCEPT ![ThreadEntry(t)].readers = @ - 1]
    /\ th' = [th EXCEPT ![t].pc = "promote"]
    /\ UNCHANGED <<instanceCounter, entryPages, tp, pagesToFree, tables, ppUsed, fileData, diskTable, descr, fileSize,
                   recyclePages, panicMsg, cursor, last, opCount, pmLock>>

\* lines 221-232: the write lock is taken and the loop restarts
ConcWriteLock(t) ==
    /\ Running /\ th[t].pc = "promote"
    /\ CanLock(ThreadEntry(t))
    /\ epLock' = [epLock EXCEPT ![ThreadEntry(t)].writer = TRUE]
    /\ th' = [th EXCEPT ![t].pc = "loop", ![t].s = writePromote(@)]
    /\ UNCHANGED <<instanceCounter, entryPages, tp, pagesToFree, tables, ppUsed, fileData, diskTable, descr, fileSize,
                   recyclePages, panicMsg, cursor, last, opCount, pmLock>>

\* line 237, managedAllocatePage: pm.mu is taken and allocatePage runs up to
\* the read of pagesToFree
ConcAllocLock(t) ==
    /\ Running /\ th[t].pc = "loop"
    /\ writeBranch(ThreadEntry(t), WithWorld(t)) = "allocate"
    /\ pmLock = "free"
    /\ pmLock' = t
    /\ th' = [th EXCEPT ![t].pc = "alloc", ![t].stale = PeekPagesToFree]
    /\ UNCHANGED <<instanceCounter, entryPages, tp, pagesToFree, tables, ppUsed, fileData, diskTable, descr, fileSize,
                   recyclePages, panicMsg, cursor, last, opCount, epLock>>

\* lines 237-250: the allocation ends, pm.mu is released, the page is appended
ConcAllocUnlock(t) ==
    /\ Running /\ th[t].pc = "alloc"
    /\ LET allocated(s1) ==
               /\ SetWorld(s1.w)
               /\ th' = [th EXCEPT ![t].pc = "loop", ![t].stale = NoPage,
                                   ![t].s = LocalOf(s1)]
       IN  allocated(writeAllocate(ThreadEntry(t), WithWorld(t)))
    /\ pmLock' = "free"
    /\ UNCHANGED <<instanceCounter, entryPages, cursor, last, opCount, epLock>>

\* line 273 of Entry.write: addPages runs, without pm.mu, up to the read of
\* pagesToFree in the freePage of its first allocatePage
ConcAddPeek(t) ==
    /\ Running /\ th[t].pc = "loop"
    /\ writeBranch(ThreadEntry(t), WithWorld(t)) = "exit"
    /\ th[t].s.byteIncrease # 0
    /\ PeekPagesToFree # NoPage
    /\ th' = [th EXCEPT ![t].pc = "add", ![t].stale = PeekPagesToFree]
    /\ UNCHANGED <<instanceCounter, entryPages, tp, pagesToFree, tables, ppUsed, fileData, diskTable, descr, fileSize,
                   recyclePages, panicMsg, cursor, last, opCount, epLock, pmLock>>

\* lines 273-278 and the deferred unlocks: addPages ends and the call returns
ConcWriteEnd(t) ==
    /\ Running
    /\ \/ th[t].pc = "add"
       \/ th[t].pc = "loop" /\ writeBranch(ThreadEntry(t), WithWorld(t)) = "exit"
    /\ LET e == ThreadEntry(t)
           h == ThreadHandle(t)
           s == th[t].s
           return(a) ==
               /\ SetWorld(a.w)
               /\ th' = [th EXCEPT ![t].pc = "done", ![t].stale = NoPage]
               /\ epLock' = IF s.appending THEN [epLock EXCEPT ![e].writer = FALSE]
                            ELSE [epLock EXCEPT ![e].readers = @ - 1]
               /\ cursor' = IF th[t].op = "Write"
                            THEN [cursor EXCEPT ![h] = [cursorPage |-> s.cp,
                                                        cursorOff |-> s.co]]
                            ELSE cursor
       IN  return(entryAddPages(WithWorld(t).w, e, s.addedPages, s.byteIncrease))
    /\ UNCHANGED <<instanceCounter, entryPages, last, opCount, pmLock>>

\* Entry.ReadAt up to the loop of Entry.read: RLock and the seek
ConcReadBegin(t, len, cap, off) ==
    /\ Running /\ th[t].pc = "idle"
    /\ CanRLock(ThreadEntry(t))
    /\ LET sk == seek(off, 0, 0, Len(tp[ThreadEntry(t)].pages))
       IN  th' = [th EXCEPT ![t] = [pc |-> "read", off |-> off, len |-> len,
                                    s |-> readStart(len, cap, sk.cp, sk.co)]]
    /\ epLock' = [epLock EXCEPT ![ThreadEntry(t)].readers = @ + 1]
    /\ UNCHANGED <<instanceCounter, entryPages, tp, pagesToFree, tables, ppUsed, fileData, diskTable, descr, fileSize,
                   recyclePages, panicMsg, cursor, last, opCount, pmLock>>

\* one iteration of the loop of Entry.read
ConcReadPage(t) ==
    /\ Running /\ th[t].pc = "read"
    /\ Len(tp[ThreadEntry(t)].pages) # 0
    /\ ~readDone(World, ThreadEntry(t), th[t].s)
    /\ LET stepped(s1) ==
               /\ th' = [th EXCEPT ![t].s = s1]
               /\ panicMsg' = s1.halt
       IN  stepped(readPage(World, ThreadEntry(t), th[t].s))
    /\ UNCHANGED <<instanceCounter, entryPages, tp, pagesToFree, tables, ppUsed, fileData, diskTable, descr, fileSize,
                   recyclePages, cursor, last, opCount, epLock, pmLock>>

\* Entry.read returns and ReadAt releases the read lock
ConcReadEnd(t) ==
    /\ Running /\ th[t].pc = "read"
    /\ Len(tp[ThreadEntry(t)].pages) = 0 \/ readDone(World, ThreadEntry(t), th[t].s)
    /\ LET return(r) ==
               th' = [th EXCEPT ![t] = [pc |-> "done", off |-> th[t].off, len |-> th[t].len,
                                        res |-> [n |-> r.n, eof |-> r.eof, data |-> r.data]]]
       IN  return(IF Len(tp[ThreadEntry(t)].pages) = 0
                  THEN [n |-> 0, eof |-> TRUE, data |-> <<>>]
                  ELSE readResult(th[t].s))
    /\ epLock' = [epLock EXCEPT ![ThreadEntry(t)].readers = @ - 1]
    /\ UNCHANGED <<instanceCounter, entryPages, tp, pagesToFree, tables, ppUsed, fileData, diskTable, descr, fileSize,
                   recyclePages, panicMsg, cursor, last, opCount, pmLock>>

ConcWriteLens == {pageSize, 2 * pageSize, 3 * pageSize}

ConcOffs == {0, pageSize}

NextConc ==
    \/ AllIdle /\ \E len \in {2 * pageSize, 3 * pageSize + 1} : EntryWrite("e1", len, 0)
    \/ AllIdle /\ EntryWrite("e2", 2 * pageSize, 0)
    \/ AllIdle /\ EntryTruncate("e1", pageSize)
    \/ \E len \in ConcWriteLens, off \in ConcOffs : ConcWriteBegin("w", "WriteAt", len, off)
    \/ ConcWriteBegin("b", "Write", 2 * pageSize, 0)
    \/ ConcReadBegin("r", 2 * pageSize, 2 * pageSize, 0)
    \/ \E t \in {"w", "b"} : ConcWritePage(t)
    \/ \E t \in {"w", "b"} : ConcWriteRUnlock(t)
    \/ \E t \in {"w", "b"} : ConcWriteLock(t)
    \/ \E t \in {"w", "b"} : ConcAllocLock(t)
    \/ \E t \in {"w", "b"} : ConcAllocUnlock(t)
    \/ \E t \in {"w", "b"} : ConcAddPeek(t)
    \/ \E t \in {"w", "b"} : ConcWriteEnd(t)
    \/ ConcReadPage("r")
    \/ ConcReadEnd("r")

SpecConc == Init /\ [][NextConc]_vars

---------------------------------------------------------------------------
(* Properties of the concurrent specification                              *)

\* the bytes a read of len bytes at off delivers from the content c
Window(c, off, len) == SubSeq(c, Min(off, Len(c)) + 1, Min(Len(c), off + len))

\* C4: a ReadAt running concurrently with one Write/WriteAt call on the same
\* entry delivers the entry's bytes as they were before that call or as they
\* are after it, never some pages of the one and some of the other.
C4_AtomicWrite ==
    (Running /\ th["r"].pc = "done" /\ th["w"].pc # "idle") =>
        \/ th["r"].res.data = Window(th["w"].before, th["r"].off, th["r"].len)
        \/ th["r"].res.data = Window(th["w"].after, th["r"].off, th["r"].len)

Range(m) == {m[x] : x \in DOMAIN m}

\* the page table nodes of the tree below pt
RECURSIVE NodesBelow(_)
NodesBelow(pt) ==
    IF pt \notin DOMAIN tables THEN {pt}
    ELSE {pt} \cup UNION {NodesBelow(c) : c \in Range(tables[pt].childTables)}

NodePages(name) == NodesBelow(tp[name].root)

DataPages(name) ==
    SeqToSet(tp[name].pages)
        \cup UNION {Range(tables[pt].childPages) : pt \in NodePages(name) \cap DOMAIN tables}

\* the sets of pages the tiered pages and the pagesToFree buffer hold
Holdings ==
    <<DataPages("A"), NodePages("A"), DataPages("B"), NodePages("B"),
      DataPages("R"), NodePages("R"), SeqToSet(pagesToFree)>>

\* C9: whatever the interleaving of operations on different entries, a physical
\* page is held by at most one of: an entry's data pages, an entry's page table
\* nodes, the recycler's pages, the recycler's nodes, the pagesToFree buffer.
C9_SingleOwner ==
    Running =>
        \A i, j \in 1..Len(Holdings) : i # j => Holdings[i] \cap Holdings[j] = {}

---------------------------------------------------------------------------
(* The concurrent specification of the recycler: threads w and b truncate  *)
(* their entries A and B, thread b also writes B.  Truncate is cut before  *)
(* and after the first lines of the recycler's addPages.                   *)

\* Entry.Truncate, lines 176-187: ep.mu.Lock, recursiveTruncate and defrag
ConcTruncBegin(t, size) ==
    /\ Running /\ th[t].pc = "idle"
    /\ CanLock(ThreadEntry(t))
    /\ LET e == ThreadEntry(t)
           defragged(d, free) ==
               /\ SetWorld(d.w)
               /\ th' = [th EXCEPT ![t] = [pc |-> "truncated", stale |-> NoPage,
                                           free |-> free \o d.free]]
           truncated(r) == defragged(defrag(r.w, e), r.free)
       IN  truncated(recursiveTruncate(World, e, tp[e].root, size))
    /\ epLock' = [epLock EXCEPT ![ThreadEntry(t)].writer = TRUE]
    /\ UNCHANGED <<instanceCounter, entryPages, cursor, last, opCount, pmLock>>

\* line 192 of Entry.Truncate and lines 104-111 of recyclingPage.addPages
ConcTruncAddBegin(t) ==
    /\ Running /\ th[t].pc = "truncated"
    /\ SetWorld(recyclerAddStart(World, th[t].free))
    /\ th' = [th EXCEPT ![t].pc = "adding"]
    /\ UNCHANGED <<instanceCounter, entryPages, cursor, last, opCount, epLock, pmLock>>

\* recyclingPage.addPages from line 113 to its return, and the deferred
\* ep.mu.Unlock of Entry.Truncate
ConcTruncAddEnd(t) ==
    /\ Running /\ th[t].pc = "adding"
    /\ LET return(r) == SetWorld(r.w)
       IN  return(recyclerAddRest(World, th[t].free))
    /\ th' = [th EXCEPT ![t].pc = "done"]
    /\ epLock' = [epLock EXCEPT ![ThreadEntry(t)].writer = FALSE]
    /\ UNCHANGED <<instanceCounter, entryPages, cursor, last, opCount, pmLock>>

NextRecycle ==
    \/ AllIdle /\ \E len \in {2 * pageSize, 3 * pageSize + 1} : EntryWrite("e1", len, 0)
    \/ AllIdle /\ EntryWrite("e2", 2 * pageSize, 0)
    \/ AllIdle /\ EntryTruncate("e1", pageSize)
    \/ \E t \in {"w", "b"}, size \in {0, pageSize} : ConcTruncBegin(t, size)
    \/ \E t \in {"w", "b"} : ConcTruncAddBegin(t)
    \/ \E t \in {"w", "b"} : ConcTruncAddEnd(t)
    \/ ConcWriteBegin("b", "Write", 2 * pageSize, 0)
    \/ ConcWritePage("b")
    \/ ConcWriteRUnlock("b")
    \/ ConcWriteLock("b")
    \/ ConcAllocLock("b")
    \/ ConcAllocUnlock("b")
    \/ ConcWriteEnd("b")

SpecRecycle == Init /\ [][NextRecycle]_vars

\* a thread is inside the recycler's addPages
Adding(t) == th[t].pc = "adding"

\* a thread is inside the recycler's freePage, past its read of pagesToFree
Freeing(t) == th[t].pc = "alloc" /\ th[t].stale # NoPage

\* while an addPages call is in progress no freePage call runs and recycling
\* stays suspended
AddPagesAlone ==
    (\E t \in Threads : Adding(t)) =>
        /\ ~recyclePages
        /\ \A t \in Threads : ~Freeing(t)

\* a step of a thread that changes the recycler is taken while pm.mu is held
RecyclerStepLocked ==
    (th' # th /\ (tp'["R"] # tp["R"] \/ pagesToFree' # pagesToFree)) => pmLock # "free"

\* C21: while a recycler addPages call is in progress no freePage call runs on
\* the recycler and recyclePages stays false until that addPages returns, under
\* every interleaving of Truncate and Write calls on different entries; and
\* every step that changes the recycler is taken while pm.mu is held.
C21_RecyclerGuarded == [](Running => AddPagesAlone) /\ [][RecyclerStepLocked]_vars

---------------------------------------------------------------------------
(* The concurrent specification of the entry lock: on entry A thread w     *)
(* writes and thread r reads or truncates, after operations that ran alone *)
(* and of which one may have met a failing allocation.                     *)

\* lines 237-240 of Entry.write: managedAllocatePage fails to extend the file
\* and the call returns the error through its deferred unlocks
ConcAllocFail(t) ==
    /\ Running /\ th[t].pc = "alloc" /\ th[t].stale = NoPage
    /\ pmLock' = "free"
    /\ th' = [th EXCEPT ![t].pc = "done"]
    /\ epLock' = IF th[t].s.appending
                 THEN [epLock EXCEPT ![ThreadEntry(t)].writer = FALSE]
                 ELSE [epLock EXCEPT ![ThreadEntry(t)].readers = @ - 1]
    /\ cursor' = IF th[t].op = "Write"
                 THEN [cursor EXCEPT ![ThreadHandle(t)] =
                          [cursorPage |-> th[t].s.cp, cursorOff |-> th[t].s.co]]
                 ELSE cursor
    /\ UNCHANGED <<instanceCounter, entryPages, tp, pagesToFree, tables, ppUsed, fileData,
                   diskTable, descr, fileSize, recyclePages, panicMsg, last, opCount>>

NextLocks ==
    \/ AllIdle /\ \E len \in {1, 2 * pageSize} : EntryWrite("e1", len, 0)
    \/ AllIdle /\ \E fail \in {0, 2} : EntryWriteAt("e1", pageSize + 1, pageSize, fail)
    \/ \E op \in {"Write", "WriteAt"}, len \in {1, pageSize, 2 * pageSize + 1},
          off \in {0, 1, pageSize} : ConcWriteBegin("w", op, len, off)
    \/ ConcWritePage("w")
    \/ ConcWriteRUnlock("w")
    \/ ConcWriteLock("w")
    \/ ConcAllocLock("w")
    \/ ConcAllocUnlock("w")
    \/ ConcAllocFail("w")
    \/ ConcWriteEnd("w")
    \/ ConcReadBegin("r", 2 * pageSize, 2 * pageSize, 0)
    \/ ConcReadPage("r")
    \/ ConcReadEnd("r")
    \/ \E size \in {0, pageSize} : ConcTruncBegin("r", size)
    \/ ConcTruncAddBegin("r")
    \/ ConcTruncAddEnd("r")

SpecLocks == Init /\ [][NextLocks]_vars

\* the page table nodes of the tree below pt in the node objects tbl
RECURSIVE treeOf(_, _)
treeOf(tbl, pt) ==
    IF pt \notin DOMAIN tbl THEN {}
    ELSE {pt} \cup UNION {treeOf(tbl, tbl[pt].childTables[i]) :
                              i \in DOMAIN tbl[pt].childTables}

\* what the entry lock of a tiered page guards: its pages list, its used size,
\* the used size of its data pages and its page table tree
Guarded(t, used, tbl) ==
    [pages |-> t.pages, usedSize |-> t.usedSize,
     pageUsed |-> [i \in 1..Len(t.pages) |-> used[t.pages[i]]],
     tree |-> [n \in treeOf(tbl, t.root) |-> tbl[n]]]

\* a step of a thread that changes what the entry lock guards is taken while
\* the exclusive lock is held (the step may take or release it) and no thread
\* holds the shared lock
ExclusiveStep ==
    \A e \in Entries :
        (th' # th /\ Guarded(tp'[e], ppUsed', tables') # Guarded(tp[e], ppUsed, tables))
            => ((epLock[e].writer \/ epLock'[e].writer) /\ epLock[e].readers = 0)

\* when every call has returned the entry locks are as before the calls
Balanced ==
    (\A t \in Threads : th[t].pc \in {"idle", "done"}) => epLock = FreeLocks

\* C22: every change to an entry's pages list, its used size, the used size of
\* one of its data pages or its page table tree is made while the changing
\* thread holds the entry's exclusive lock and no thread holds the shared lock;
\* and when a Write or WriteAt returns, with success or with an error, the
\* entry's lock is held as it was before the call.
C22_ExclusiveChanges == [](Balanced) /\ [][ExclusiveStep]_vars

---------------------------------------------------------------------------
(* Threads under fair scheduling: every operation of Entry with its lock   *)
(* steps, the return of a promoted write taken apart                       *)

\* the deferred calls of a write that returns: a promoted write gives up the
\* write lock (line 223) and has the read lock still to take (line 222)
LeaveWrite(t) ==
    /\ epLock' = IF th[t].s.appending
                 THEN [epLock EXCEPT ![ThreadEntry(t)].writer = FALSE]
                 ELSE [epLock EXCEPT ![ThreadEntry(t)].readers = @ - 1]
    /\ cursor' = IF th[t].op = "Write"
                 THEN [cursor EXCEPT ![ThreadHandle(t)] =
                          [cursorPage |-> th[t].s.cp, cursorOff |-> th[t].s.co]]
                 ELSE cursor

LeftWrite(t) == IF th[t].s.appending THEN "relock" ELSE "done"

\* lines 273-278 of Entry.write and the first deferred call
LiveWriteEnd(t) ==
    /\ Running
    /\ \/ th[t].pc = "add"
       \/ th[t].pc = "loop" /\ writeBranch(ThreadEntry(t), WithWorld(t)) = "exit"
    /\ LET return(a) ==
               /\ SetWorld(a.w)
               /\ th' = [th EXCEPT ![t].pc = LeftWrite(t), ![t].stale = NoPage]
       IN  return(entryAddPages(WithWorld(t).w, ThreadEntry(t), th[t].s.addedPages,
                                th[t].s.byteIncrease))
    /\ LeaveWrite(t)
    /\ UNCHANGED <<instanceCounter, entryPages, last, opCount, pmLock>>

\* lines 237-240: managedAllocatePage fails and the write returns the error
LiveAllocFail(t) ==
    /\ Running /\ th[t].pc = "alloc" /\ th[t].stale = NoPage
    /\ pmLock' = "free"
    /\ th' = [th EXCEPT ![t].pc = LeftWrite(t)]
    /\ LeaveWrite(t)
    /\ UNCHANGED <<instanceCounter, entryPages, tp, pagesToFree, tables, ppUsed, fileData,
                   diskTable, descr, fileSize, recyclePages, panicMsg, last, opCount>>

\* line 222, deferred: e.ep.mu.RLock() of the promoted write
LiveWriteRLock(t) ==
    /\ Running /\ th[t].pc = "relock"
    /\ CanRLock(ThreadEntry(t))
    /\ epLock' = [epLock EXCEPT ![ThreadEntry(t)].readers = @ + 1]
    /\ th' = [th EXCEPT ![t].pc = "relocked"]
    /\ UNCHANGED <<instanceCounter, entryPages, tp, pagesToFree, tables, ppUsed, fileData,
                   diskTable, descr, fileSize, recyclePages, panicMsg, cursor, last,
                   opCount, pmLock>>

\* the deferred e.ep.mu.RUnlock() of Entry.Write / Entry.WriteAt
LiveWriteReturn(t) ==
    /\ Running /\ th[t].pc = "relocked"
    /\ epLock' = [epLock EXCEPT ![ThreadEntry(t)].readers = @ - 1]
    /\ th' = [th EXCEPT ![t].pc = "done"]
    /\ UNCHANGED <<instanceCounter, entryPages, tp, pagesToFree, tables, ppUsed, fileData,
                   diskTable, descr, fileSize, recyclePages, panicMsg, cursor, last,
                   opCount, pmLock>>

\* Entry.Seek: e.ep.mu.RLock()
LiveSeekBegin(t, offset, whence) ==
    /\ Running /\ th[t].pc = "idle"
    /\ CanRLock(ThreadEntry(t))
    /\ epLock' = [epLock EXCEPT ![ThreadEntry(t)].readers = @ + 1]
    /\ th' = [th EXCEPT ![t] = [pc |-> "seek", offset |-> offset, whence |-> whence]]
    /\ UNCHANGED <<instanceCounter, entryPages, tp, pagesToFree, tables, ppUsed, fileData,
                   diskTable, descr, fileSize, recyclePages, panicMsg, cursor, last,
                   opCount, pmLock>>

\* Entry.Seek: the seek, the cursor and the deferred RUnlock
LiveSeekEnd(t) ==
    /\ Running /\ th[t].pc = "seek"
    /\ LET h == ThreadHandle(t)
           numPages == Len(tp[ThreadEntry(t)].pages)
           pageNum == IF th[t].whence = "SeekCurrent" THEN cursor[h].cursorPage
                      ELSE IF th[t].whence = "SeekEnd" THEN numPages ELSE 0
           pageOff == IF th[t].whence = "SeekCurrent" THEN cursor[h].cursorOff ELSE 0
           sk == seek(th[t].offset, pageNum, pageOff, numPages)
       IN  cursor' = IF sk.err THEN cursor
                     ELSE [cursor EXCEPT ![h] = [cursorPage |-> sk.cp, cursorOff |-> sk.co]]
    /\ epLock' = [epLock EXCEPT ![ThreadEntry(t)].readers = @ - 1]
    /\ th' = [th EXCEPT ![t] = [pc |-> "done"]]
    /\ UNCHANGED <<instanceCounter, entryPages, tp, pagesToFree, tables, ppUsed, fileData,
                   diskTable, descr, fileSize, recyclePages, panicMsg, last, opCount, pmLock>>

\* Entry.Close: e.ep.pm.mu.Lock()
LiveCloseLock(t) ==
    /\ Running /\ th[t].pc = "idle"
    /\ pmLock = "free"
    /\ pmLock' = t
    /\ th' = [th EXCEPT ![t] = [pc |-> "closing"]]
    /\ UNCHANGED <<instanceCounter, entryPages, tp, pagesToFree, tables, ppUsed, fileData,
                   diskTable, descr, fileSize, recyclePages, panicMsg, cursor, last,
                   opCount, epLock>>

\* Entry.Close: the decrement, the removal and the deferred Unlock
LiveCloseEnd(t) ==
    /\ Running /\ th[t].pc = "closing" /\ pmLock = t
    /\ LET e == ThreadEntry(t)
           return(r) ==
               /\ instanceCounter' = [instanceCounter EXCEPT ![e] = r.counter]
               /\ entryPages' = r.registry
       IN  return(closeBody(instanceCounter[e], entryPages, Identifier(e)))
    /\ pmLock' = "free"
    /\ th' = [th EXCEPT ![t] = [pc |-> "done"]]
    /\ UNCHANGED <<tp, pagesToFree, tables, ppUsed, fileData, diskTable, descr, fileSize,
                   recyclePages, panicMsg, cursor, last, opCount, epLock>>

\* the calls a thread may start: w writes to entry A or closes its cursor, r
\* reads, seeks or truncates entry A, b writes to, truncates or closes entry B
LiveBegin(t) ==
    \/ t = "w" /\ \E len \in {1, 2 * pageSize} : ConcWriteBegin(t, "Write", len, 0)
    \/ t = "b" /\ ConcWriteBegin(t, "WriteAt", 2 * pageSize, 0)
    \/ t = "r" /\ ConcReadBegin(t, 2 * pageSize, 2 * pageSize, 0)
    \/ t = "r" /\ LiveSeekBegin(t, 1, "SeekEnd")
    \/ t \in {"r", "b"} /\ ConcTruncBegin(t, 0)
    \/ t \in {"w", "b"} /\ LiveCloseLock(t)

\* the steps of a thread inside its call that take or give up a lock or
\* return
LockStep(t) ==
    \/ ConcWriteRUnlock(t)
    \/ ConcWriteLock(t)
    \/ ConcAllocLock(t)
    \/ LiveAllocFail(t)
    \/ ConcAddPeek(t)
    \/ LiveWriteRLock(t)
    \/ LiveWriteReturn(t)
    \/ ConcReadEnd(t)
    \/ LiveSeekEnd(t)
    \/ LiveCloseEnd(t)

\* the steps of a thread inside its call that work on pages and page tables;
\* none of them waits
WorkStep(t) ==
    \/ ConcWritePage(t)
    \/ ConcAllocUnlock(t)
    \/ LiveWriteEnd(t)
    \/ ConcReadPage(t)
    \/ ConcTruncAddBegin(t)
    \/ ConcTruncAddEnd(t)

\* the thread is at one of the steps of WorkStep
Working(t) ==
    /\ Running
    /\ \/ th[t].pc \in {"alloc", "add", "truncated", "adding"}
       \/ th[t].pc = "loop" /\ writeBranch(ThreadEntry(t), WithWorld(t)) \in {"page", "exit"}
       \/ /\ th[t].pc = "read"
          /\ Len(tp[ThreadEntry(t)].pages) # 0
          /\ ~readDone(World, ThreadEntry(t), th[t].s)

NextLive ==
    \/ AllIdle /\ \E len \in {1, 2 * pageSize} : EntryWrite("e1", len, 0)
    \/ \E t \in Threads : LiveBegin(t)
    \/ \E t \in Threads : LockStep(t)
    \/ \E t \in Threads : WorkStep(t)

\* the scheduler runs every thread that can take a step: weak fairness of the
\* steps of each thread, written for WorkStep with its enabling condition
SpecLive ==
    /\ Init /\ [][NextLive]_vars
    /\ \A t \in Threads : WF_vars(LockStep(t))
    /\ \A t \in Threads : []<>(~Working(t)) \/ []<><<WorkStep(t)>>_vars

Started(t) == th[t].pc \notin {"idle", "done"}

Returned(t) == th[t].pc = "done" /\ Running

\* while a call is in progress and the program has not stopped, some thread
\* inside a call can take a step
NoWaitCycle ==
    (Running /\ \E t \in Threads : Started(t))
        => \E t \in Threads : Working(t) \/ ENABLED LockStep(t)

\* C23: under fair scheduling of threads that run Read, ReadAt, Seek, Write,
\* WriteAt, Truncate and Close on cursors of one entry and of another, no
\* deadlock is reachable and every call that was started returns.
C23_EveryCallReturns ==
    [](NoWaitCycle) /\ \A t \in Threads : Started(t) ~> Returned(t)

---------------------------------------------------------------------------
(* The tree rebuilt by recoverTree                                         *)

\* the children recursiveRecovery attached to a recovered node
Attached(node) ==
    IF MapLen(node.childTables) # 0 THEN node.childTables ELSE node.childPages

\* the recovered tree r has the structure of the persisted one: the i-th
\* offset read from a node's page is the child at slot i, a child table is one
\* level below its parent and points back to it, the root has no parent
SameStructure(w, r) ==
    /\ r.nodes[r.root].parent = NoPage
    /\ \A n \in DOMAIN r.nodes :
           /\ DOMAIN Attached(r.nodes[n]) = 0..(Len(readPageTable(w, n)) - 1)
           /\ \A i \in DOMAIN Attached(r.nodes[n]) :
                  i + 1 \in 1..Len(readPageTable(w, n))
                      => fileOff(Attached(r.nodes[n])[i]) = readPageTable(w, n)[i + 1]
           /\ \A i \in DOMAIN r.nodes[n].childTables :
                  /\ r.nodes[r.nodes[n].childTables[i]].height = r.nodes[n].height - 1
                  /\ r.nodes[r.nodes[n].childTables[i]].parent = n

\* C24: between operations, the tree that recoverTree rebuilds from the disk
\* has the structure of the persisted tree: the children of a node with k
\* on-disk children are at slots 0..k-1 in on-disk order, every child table
\* has its parent's height minus 1, every node but the root points to its
\* parent and the root has none.
C24_RecoveredStructure ==
    Running => SameStructure(World, reload(World, "A"))

---------------------------------------------------------------------------
(* The loops of recursiveTruncate                                          *)

\* the loop index of recursiveTruncate was used on a slot that holds no child
SlotOutsidePrefix == panicMsg = "recursiveTruncate: nil pointer dereference"

\* C25: for every tree, the empty root included, and every size, sizes below 0
\* and sizes at or above the used size included, Truncate returns from
\* recursiveTruncate and the loop index is never used on a slot outside the
\* occupied slots of a node.
C25_TruncateStaysInSlots ==
    last.op = "Truncate" => ~SlotOutsidePrefix

=============================================================================
